---- MODULE Spec2Model ----
(***************************************************************************)
(* go-search (src/cmd/search.go): a recursive directory search.  Search    *)
(* walks a tree with filepath.WalkDir; for every entry that survives the   *)
(* type filter it starts a goroutine that glob-matches the entry's base    *)
(* name and appends the path to a mutex-protected slice; main prints the   *)
(* result.                                                                 *)
(*                                                                         *)
(* Paths are sequences of path components (filepath.Join appends a         *)
(* component, filepath.Base takes the last one); the strings the program   *)
(* computes on (base names, patterns) are sequences of characters.         *)
(***************************************************************************)
EXTENDS Integers, Sequences, FiniteSets, TLC

VARIABLES
    args,       \* os.Args: the program name, then the command line's tokens
    tree,       \* the filesystem: the set of existing paths ({} = the root does not exist)
    fault,      \* the filesystem: per directory, what os.ReadDir reports for it
    opts,       \* the Options main passes to Search (never written after construction)
    pattern,    \* Search's parameter `pattern`, captured by reference by every goroutine
    wpc,        \* position of the main goroutine
    stack,      \* WalkDir's recursion: a stack of the entry lists still to be walked
    cur,        \* the directory walkDir is about to read
    walkErr,    \* the value filepath.WalkDir returns
    tasks,      \* the goroutines started so far, in start order
    matches,    \* Search's slice `matches`
    mu,         \* Search's mutex: 0 = free, i = held by goroutine i
    wg,         \* Search's WaitGroup counter
    visited,    \* history: the callback invocations so far, <<path, error>>
    ret,        \* what Search returned to main
    out,        \* standard output, line by line
    exitCode    \* the process's exit status

vars == <<args, tree, fault, opts, pattern, wpc, stack, cur, walkErr, tasks, matches,
          mu, wg, visited, ret, out, exitCode>>

----------------------------------------------------------------------------
(* Bounds of the model *)

\* the largest tree (number of entries, the root included) the search is run on
MaxEntries == 4

\* the largest number of directories whose read fails in one run
MaxFaults == 1

----------------------------------------------------------------------------
(* Characters and strings *)

Nil == "nil"

\* the characters of the entry names and command-line tokens of the model
Chars(name) ==
    CASE name = "root" -> <<"r", "o", "o", "t">>
      [] name = "a.txt" -> <<"a", ".", "t", "x", "t">>
      [] name = "B.TXT" -> <<"B", ".", "T", "X", "T">>
      [] name = "sub" -> <<"s", "u", "b">>
      [] name = "Sub" -> <<"S", "u", "b">>
      [] name = "-x" -> <<"-", "x">>

\* the code point of a character (ASCII)
Ord(c) ==
    CASE c = "*" -> 42 [] c = "-" -> 45 [] c = "." -> 46 [] c = "?" -> 63
      [] c = "A" -> 65 [] c = "B" -> 66 [] c = "O" -> 79 [] c = "R" -> 82 [] c = "S" -> 83
      [] c = "T" -> 84
      [] c = "X" -> 88 [] c = "Z" -> 90 [] c = "[" -> 91 [] c = "]" -> 93
      [] c = "^" -> 94 [] c = "a" -> 97 [] c = "b" -> 98 [] c = "o" -> 111
      [] c = "r" -> 114 [] c = "s" -> 115 [] c = "t" -> 116 [] c = "u" -> 117
      [] c = "x" -> 120 [] c = "z" -> 122
      [] OTHER -> 0

\* strings.ToLower on one character: upper-case letters map to lower case
LowerChar(c) ==
    CASE c = "A" -> "a" [] c = "B" -> "b" [] c = "O" -> "o" [] c = "R" -> "r" [] c = "S" -> "s"
      [] c = "T" -> "t" [] c = "X" -> "x" [] c = "Z" -> "z"
      [] OTHER -> c

\* strings.ToLower
ToLower(s) == [i \in 1..Len(s) |-> LowerChar(s[i])]

\* filepath.Base: the last component of a path
Base(path) == path[Len(path)]

\* filepath.Join(path, name)
Join(path, name) == Append(path, name)

----------------------------------------------------------------------------
(* filepath.Match, as Search calls it at line 100.  The program builds only *)
(* for Windows (syscall.ERROR_ACCESS_DENIED), where a backslash is the path *)
(* separator and not an escape character.                                   *)

BadClass == [bad |-> TRUE, next |-> 0, hit |-> FALSE]

\* The ranges of a character class, read from p[i] on, tested against the
\* character r: n ranges have been read and `hit` tells whether one held r.
RECURSIVE ParseClass(_, _, _, _, _)
ParseClass(p, i, r, n, hit) ==
    IF i <= Len(p) /\ p[i] = "]" /\ n > 0
    THEN [bad |-> FALSE, next |-> i + 1, hit |-> hit]
    ELSE IF i > Len(p) \/ p[i] \in {"-", "]"} THEN BadClass
    ELSE IF i + 1 > Len(p) THEN BadClass
    ELSE IF p[i + 1] = "-"
    THEN IF i + 2 > Len(p) \/ p[i + 2] \in {"-", "]"} \/ i + 3 > Len(p)
         THEN BadClass
         ELSE ParseClass(p, i + 3, r, n + 1,
                         hit \/ (Ord(p[i]) <= Ord(r) /\ Ord(r) <= Ord(p[i + 2])))
    ELSE ParseClass(p, i + 1, r, n + 1, hit \/ p[i] = r)

\* the class that opens at p[i] = "[": negated or not, then its ranges
Class(p, i, r) ==
    LET negated == i + 1 <= Len(p) /\ p[i + 1] = "^"
        c == ParseClass(p, IF negated THEN i + 2 ELSE i + 1, r, 0, FALSE)
    IN  [bad |-> c.bad, next |-> c.next, ok |-> c.hit # negated]

\* whether the pattern from p[i] on is well formed (every class is closed)
RECURSIVE WellFormed(_, _)
WellFormed(p, i) ==
    IF i > Len(p) THEN TRUE
    ELSE IF p[i] = "["
    THEN LET c == Class(p, i, "") IN ~c.bad /\ WellFormed(p, c.next)
    ELSE WellFormed(p, i + 1)

\* whether the well-formed pattern from p[i] on matches the name from s[j] on
RECURSIVE Glob(_, _, _, _)
Glob(p, i, s, j) ==
    IF i > Len(p) THEN j > Len(s)
    ELSE IF p[i] = "*" THEN \E k \in j..(Len(s) + 1) : Glob(p, i + 1, s, k)
    ELSE IF j > Len(s) THEN FALSE
    ELSE IF p[i] = "?" THEN Glob(p, i + 1, s, j + 1)
    ELSE IF p[i] = "["
    THEN LET c == Class(p, i, s[j]) IN c.ok /\ Glob(p, c.next, s, j + 1)
    ELSE p[i] = s[j] /\ Glob(p, i + 1, s, j + 1)

\* filepath.Match(pattern, name): (matched, err)
Match(p, s) ==
    IF WellFormed(p, 1)
    THEN [matched |-> Glob(p, 1, s, 1), err |-> Nil]
    ELSE [matched |-> FALSE, err |-> "ErrBadPattern"]

----------------------------------------------------------------------------
(* The filesystem the walk runs on *)

RootDir == <<"root">>

\* every entry a tree of the model may hold, and whether it is a directory
IsDirOf ==
    (RootDir :> TRUE)
    @@ (<<"root", "B.TXT">> :> FALSE)
    @@ (<<"root", "Sub">> :> TRUE)
    @@ (<<"root", "a.txt">> :> FALSE)
    @@ (<<"root", "sub">> :> TRUE)
    @@ (<<"root", "sub", "a.txt">> :> FALSE)

Universe == DOMAIN IsDirOf

Parent(path) == SubSeq(path, 1, Len(path) - 1)

\* a tree holds the parent of each of its entries
IsTree(t) == \A path \in t : path = RootDir \/ Parent(path) \in t

Trees == {t \in SUBSET Universe : IsTree(t) /\ Cardinality(t) <= MaxEntries}

Dirs(t) == {path \in t : IsDirOf[path]}

\* what reading each directory of the tree reports
Faults(t) ==
    {f \in [Dirs(t) -> {"none", "denied", "other"}] :
        Cardinality({d \in Dirs(t) : f[d] # "none"}) <= MaxFaults}

\* the tree of the specification's concrete scenarios: root/{a.txt, B.TXT, sub/a.txt}
ScenarioTree ==
    { RootDir, <<"root", "a.txt">>, <<"root", "B.TXT">>, <<"root", "sub">>,
      <<"root", "sub", "a.txt">> }

ScenarioPatterns == {Chars("a.txt"), Chars("sub")}

Patterns ==
    { Chars("a.txt"), Chars("sub"), <<"[", "O", "-", "R", "]", "*">>, <<"[">> }

\* byte-wise order of two names, as os.ReadDir sorts its entries
RECURSIVE NameLess(_, _)
NameLess(a, b) ==
    IF a = <<>> THEN b # <<>>
    ELSE IF b = <<>> THEN FALSE
    ELSE IF Head(a) = Head(b) THEN NameLess(Tail(a), Tail(b))
    ELSE Ord(Head(a)) < Ord(Head(b))

ChildNames(dir) == {Base(path) : path \in {q \in tree : q # RootDir /\ Parent(q) = dir}}

\* the names of S in byte-wise order
RECURSIVE SortedNames(_)
SortedNames(S) ==
    IF S = {} THEN <<>>
    ELSE LET least == CHOOSE x \in S :
                          \A y \in S \ {x} : NameLess(Chars(x), Chars(y))
         IN  <<least>> \o SortedNames(S \ {least})

\* os.ReadDir(dir): the entries read, sorted by name, and the error.  A read
\* that is denied yields nothing; another failure yields what was read before it.
OsReadDir(dir) ==
    LET all == SortedNames(ChildNames(dir)) IN
    CASE fault[dir] = "none" -> [entries |-> all, err |-> Nil]
      [] fault[dir] = "denied" -> [entries |-> <<>>, err |-> "ERROR_ACCESS_DENIED"]
      [] OTHER -> [entries |-> SubSeq(all, 1, Len(all) - 1), err |-> "ERROR_IO"]

\* os.Lstat(root), the first thing filepath.WalkDir does
OsLstat(root) == IF root \in tree THEN Nil ELSE "ERROR_FILE_NOT_FOUND"

----------------------------------------------------------------------------
(* Search: the walk callback (lines 64-109) *)

\* a callback that hands the reported error back to WalkDir
OnWalkErrorReturned(err) == err

\* lines 65-78: what the callback returns for an entry reported with an error
OnWalkError(err) == Nil

\* a callback that skips a directory under isFileOnly with filepath.SkipDir
OnFileOnlyDirSkipDir == "SkipDir"

\* lines 81-83: what the callback returns for a directory under isFileOnly
OnFileOnlyDir == Nil

\* lines 84-86: what the callback returns for a non-directory under isDirOnly
OnDirOnlyFile == Nil

\* lines 67-76: the diagnostic line of an entry reported with an error
SkipLine(path, err) ==
    IF err = "ERROR_ACCESS_DENIED"
    THEN [kind |-> "Skipping", arg |-> path, class |-> "Access Denied"]
    ELSE [kind |-> "Skipping", arg |-> err, class |-> "Unhandle Error"]

\* line 81: the type filter leaves a directory out under isFileOnly
SkipsDirectory(isDir) == opts.isFileOnly /\ isDir

\* a type filter whose isDirOnly test lost its negation
SkipsFileInverted(isDir) == opts.isDirOnly /\ isDir

\* line 84: the type filter leaves a non-directory out under isDirOnly
SkipsFile(isDir) == opts.isDirOnly /\ ~isDir

\* a callback that prints the error of a directory and goes on to the type
\* filter and the match task instead of returning
WalkFnFallsThrough(path, isDir, err) ==
    LET line == IF err # Nil THEN <<SkipLine(path, err)>> ELSE <<>> IN
    IF err # Nil /\ ~isDir
    THEN [rv |-> OnWalkError(err), spawn |-> FALSE, print |-> line]
    ELSE IF SkipsDirectory(isDir)
    THEN [rv |-> OnFileOnlyDir, spawn |-> FALSE, print |-> line]
    ELSE IF SkipsFile(isDir)
    THEN [rv |-> OnDirOnlyFile, spawn |-> FALSE, print |-> line]
    ELSE [rv |-> Nil, spawn |-> TRUE, print |-> line]

\* the callback: the value it returns to WalkDir, whether it starts a match
\* task, and what it prints
WalkFn(path, isDir, err) ==
    IF err # Nil
    THEN [rv |-> OnWalkError(err), spawn |-> FALSE, print |-> <<SkipLine(path, err)>>]
    ELSE IF SkipsDirectory(isDir)
    THEN [rv |-> OnFileOnlyDir, spawn |-> FALSE, print |-> <<>>]
    ELSE IF SkipsFile(isDir)
    THEN [rv |-> OnDirOnlyFile, spawn |-> FALSE, print |-> <<>>]
    ELSE [rv |-> Nil, spawn |-> TRUE, print |-> <<>>]

\* the whole path as one string, components joined by the separator
RECURSIVE PathChars(_)
PathChars(path) ==
    IF Len(path) = 1 THEN Chars(path[1])
    ELSE PathChars(Parent(path)) \o <<"\\">> \o Chars(Base(path))

\* a goroutine that matches the whole path instead of the base name
NewTaskWholePath(path) ==
    [ path |-> path,
      pc |-> IF opts.isCaseSensitive THEN "match" ELSE "lower",
      baseName |-> PathChars(path),
      lowered |-> <<>>,
      matched |-> FALSE,
      buf |-> <<>> ]

\* lines 88-92: the goroutine started for an entry, about to run
NewTask(path) ==
    [ path |-> path,
      pc |-> IF opts.isCaseSensitive THEN "match" ELSE "lower",
      baseName |-> Chars(Base(path)),
      lowered |-> <<>>,
      matched |-> FALSE,
      buf |-> <<>> ]

\* line 88: wg.Add(1)
WgAdd(n) == n + 1

\* a goroutine that ends without telling the WaitGroup
WgDoneMissing(n) == n

\* line 90: wg.Done()
WgDone(n) == n - 1

\* WalkDir's recursion with the exhausted entry lists dropped
RECURSIVE Unwind(_)
Unwind(st) ==
    IF st # <<>> /\ st[Len(st)] = <<>> THEN Unwind(SubSeq(st, 1, Len(st) - 1)) ELSE st

\* the walker's position once the recursion is `st`
AfterWalk(st) == IF Unwind(st) = <<>> THEN "wait" ELSE "walk"

\* the entry the walk reports next, and the entry lists without it
NextPath == Head(stack[Len(stack)])
Rest == [stack EXCEPT ![Len(stack)] = Tail(@)]

\* filepath.WalkDir's first step: Lstat the root; a root that cannot be
\* examined is reported to the callback, whose result WalkDir returns
\* (SkipDir and SkipAll as nil)
WalkStart ==
    /\ wpc = "start"
    /\ LET err == OsLstat(opts.directory) IN
       IF err # Nil
       THEN LET r == WalkFn(opts.directory, FALSE, err) IN
            /\ visited' = Append(visited, <<opts.directory, err>>)
            /\ out' = out \o r.print
            /\ wg' = IF r.spawn THEN WgAdd(wg) ELSE wg
            /\ tasks' = IF r.spawn THEN Append(tasks, NewTask(opts.directory)) ELSE tasks
            /\ walkErr' = IF r.rv \in {"SkipDir", "SkipAll"} THEN Nil ELSE r.rv
            /\ wpc' = "wait"
            /\ stack' = <<>>
       ELSE /\ stack' = <<<<opts.directory>>>>
            /\ wpc' = "walk"
            /\ UNCHANGED <<visited, out, walkErr, tasks, wg>>
    /\ UNCHANGED <<args, tree, fault, opts, pattern, cur, matches, mu, ret, exitCode>>

\* walkDir's first call of the callback for an entry (err = nil): the type
\* filter, then wg.Add(1) and the go statement.  A directory is read next
\* unless the callback said otherwise.
Visit ==
    /\ wpc = "walk"
    /\ LET path == NextPath
           isDir == IsDirOf[path]
           r == WalkFn(path, isDir, Nil)
       IN  /\ visited' = Append(visited, <<path, Nil>>)
           /\ out' = out \o r.print
           /\ wg' = IF r.spawn THEN WgAdd(wg) ELSE wg
           /\ tasks' = IF r.spawn THEN Append(tasks, NewTask(path)) ELSE tasks
           /\ CASE r.rv = Nil /\ isDir ->
                     /\ cur' = path
                     /\ stack' = Rest
                     /\ wpc' = "readdir"
                     /\ UNCHANGED walkErr
                [] r.rv = Nil \/ (r.rv = "SkipDir" /\ isDir) ->
                     /\ stack' = Unwind(Rest)
                     /\ wpc' = AfterWalk(Rest)
                     /\ UNCHANGED <<cur, walkErr>>
                [] r.rv = "SkipDir" ->
                     \* a file answered with SkipDir: the rest of its directory is skipped
                     /\ stack' = Unwind(SubSeq(stack, 1, Len(stack) - 1))
                     /\ wpc' = AfterWalk(SubSeq(stack, 1, Len(stack) - 1))
                     /\ UNCHANGED <<cur, walkErr>>
                [] OTHER ->
                     \* any other value ends the walk and is what WalkDir returns
                     /\ stack' = <<>>
                     /\ wpc' = "wait"
                     /\ walkErr' = IF r.rv = "SkipAll" THEN Nil ELSE r.rv
                     /\ UNCHANGED cur
    /\ UNCHANGED <<args, tree, fault, opts, pattern, matches, mu, ret, exitCode>>

\* walkDir reads the directory; a failed read is reported to the callback in
\* a second call for the same path, and the entries that were read are walked
ReadDir ==
    /\ wpc = "readdir"
    /\ LET rd == OsReadDir(cur)
           r == IF rd.err # Nil THEN WalkFn(cur, TRUE, rd.err)
                ELSE [rv |-> Nil, spawn |-> FALSE, print |-> <<>>]
           pushed == Append(stack, [i \in 1..Len(rd.entries) |-> Join(cur, rd.entries[i])])
       IN  /\ visited' = IF rd.err # Nil THEN Append(visited, <<cur, rd.err>>) ELSE visited
           /\ out' = out \o r.print
           /\ wg' = IF r.spawn THEN WgAdd(wg) ELSE wg
           /\ tasks' = IF r.spawn THEN Append(tasks, NewTask(cur)) ELSE tasks
           /\ CASE r.rv = Nil ->
                     /\ stack' = Unwind(pushed)
                     /\ wpc' = AfterWalk(pushed)
                     /\ UNCHANGED walkErr
                [] r.rv = "SkipDir" ->
                     /\ stack' = Unwind(stack)
                     /\ wpc' = AfterWalk(stack)
                     /\ UNCHANGED walkErr
                [] OTHER ->
                     /\ stack' = <<>>
                     /\ wpc' = "wait"
                     /\ walkErr' = IF r.rv = "SkipAll" THEN Nil ELSE r.rv
    /\ UNCHANGED <<args, tree, fault, opts, pattern, cur, matches, mu, ret, exitCode>>

----------------------------------------------------------------------------
(* Search: the match goroutine (lines 89-106) *)

Running == wpc # "exited"

\* a test that looks at Match's error only
MatchedWithoutFlag(m) == m.err = Nil

\* line 101: the goroutine appends when Match reported a match and no error
Matched(m) == m.err = Nil /\ m.matched

\* a lock that never blocks
CanLockAlways(m) == TRUE

\* line 102: mu.Lock() returns once the mutex is free
CanLock(m) == m = 0

\* lines 96-97, right-hand sides: the base name is lower-cased, the shared
\* pattern is read and lower-cased
TaskLower(i) ==
    /\ Running
    /\ tasks[i].pc = "lower"
    /\ tasks' = [tasks EXCEPT ![i].baseName = ToLower(@),
                              ![i].lowered = ToLower(pattern),
                              ![i].pc = "assign"]
    /\ UNCHANGED <<args, tree, fault, opts, pattern, wpc, stack, cur, walkErr, matches,
                   mu, wg, visited, ret, out, exitCode>>

\* line 97, the assignment: the shared pattern is overwritten
TaskAssign(i) ==
    /\ Running
    /\ tasks[i].pc = "assign"
    /\ pattern' = tasks[i].lowered
    /\ tasks' = [tasks EXCEPT ![i].pc = "match"]
    /\ UNCHANGED <<args, tree, fault, opts, wpc, stack, cur, walkErr, matches,
                   mu, wg, visited, ret, out, exitCode>>

\* lines 100-101: the shared pattern is read and matched against the base name
TaskMatch(i) ==
    /\ Running
    /\ tasks[i].pc = "match"
    /\ LET hit == Matched(Match(pattern, tasks[i].baseName)) IN
       tasks' = [tasks EXCEPT ![i].matched = hit,
                              ![i].pc = IF hit THEN "lock" ELSE "done"]
    /\ UNCHANGED <<args, tree, fault, opts, pattern, wpc, stack, cur, walkErr, matches,
                   mu, wg, visited, ret, out, exitCode>>

\* line 102: mu.Lock()
TaskLock(i) ==
    /\ Running
    /\ tasks[i].pc = "lock"
    /\ CanLock(mu)
    /\ mu' = i
    /\ tasks' = [tasks EXCEPT ![i].pc = "load"]
    /\ UNCHANGED <<args, tree, fault, opts, pattern, wpc, stack, cur, walkErr, matches,
                   wg, visited, ret, out, exitCode>>

\* line 103, append's read of the slice
TaskLoad(i) ==
    /\ Running
    /\ tasks[i].pc = "load"
    /\ tasks' = [tasks EXCEPT ![i].buf = matches, ![i].pc = "store"]
    /\ UNCHANGED <<args, tree, fault, opts, pattern, wpc, stack, cur, walkErr, matches,
                   mu, wg, visited, ret, out, exitCode>>

\* line 103, the assignment of the grown slice
TaskStore(i) ==
    /\ Running
    /\ tasks[i].pc = "store"
    /\ matches' = Append(tasks[i].buf, tasks[i].path)
    /\ tasks' = [tasks EXCEPT ![i].buf = <<>>, ![i].pc = "unlock"]
    /\ UNCHANGED <<args, tree, fault, opts, pattern, wpc, stack, cur, walkErr,
                   mu, wg, visited, ret, out, exitCode>>

\* line 104: mu.Unlock()
TaskUnlock(i) ==
    /\ Running
    /\ tasks[i].pc = "unlock"
    /\ mu' = 0
    /\ tasks' = [tasks EXCEPT ![i].pc = "done"]
    /\ UNCHANGED <<args, tree, fault, opts, pattern, wpc, stack, cur, walkErr, matches,
                   wg, visited, ret, out, exitCode>>

\* line 90: the deferred wg.Done(), and the goroutine ends
TaskDone(i) ==
    /\ Running
    /\ tasks[i].pc = "done"
    /\ wg' = WgDone(wg)
    /\ tasks' = [tasks EXCEPT ![i].pc = "exited"]
    /\ UNCHANGED <<args, tree, fault, opts, pattern, wpc, stack, cur, walkErr, matches,
                   mu, visited, ret, out, exitCode>>

----------------------------------------------------------------------------
(* Search's return (lines 111-112) and main (lines 135-149) *)

\* a wait that returns at once
WaitPassesAlways(n) == TRUE

\* line 111: wg.Wait() returns once the counter is zero
WaitPasses(n) == n = 0

\* lines 111-112: wait for the goroutines, return the slice and WalkDir's error
SearchReturn ==
    /\ wpc = "wait"
    /\ WaitPasses(wg)
    /\ ret' = [matches |-> matches, err |-> walkErr]
    /\ wpc' = "returned"
    /\ UNCHANGED <<args, tree, fault, opts, pattern, stack, cur, walkErr, tasks, matches,
                   mu, wg, visited, out, exitCode>>

\* line 138: main returns after printing the error, so the process ends
\* with the status of a normal return
ExitAfterSearchError == 0

\* a report without the case of an empty result
MainOutputAlwaysList(r) ==
    IF r.err # Nil
    THEN <<[kind |-> "Error during file search:", arg |-> r.err, class |-> ""]>>
    ELSE <<[kind |-> "Found Paths:", arg |-> <<>>, class |-> ""]>>
         \o [i \in 1..Len(r.matches) |-> [kind |-> "path", arg |-> r.matches[i], class |-> ""]]

\* lines 136-149: what main prints for Search's result
MainOutput(r) ==
    IF r.err # Nil
    THEN <<[kind |-> "Error during file search:", arg |-> r.err, class |-> ""]>>
    ELSE IF Len(r.matches) = 0
    THEN <<[kind |-> "No path matches the pattern", arg |-> <<>>, class |-> ""]>>
    ELSE <<[kind |-> "Found Paths:", arg |-> <<>>, class |-> ""]>>
         \o [i \in 1..Len(r.matches) |-> [kind |-> "path", arg |-> r.matches[i], class |-> ""]]

\* lines 136-149: main reports Search's result and returns
MainReport ==
    /\ wpc = "returned"
    /\ out' = out \o MainOutput(ret)
    /\ exitCode' = IF ret.err # Nil THEN ExitAfterSearchError ELSE 0
    /\ wpc' = "exited"
    /\ UNCHANGED <<args, tree, fault, opts, pattern, stack, cur, walkErr, tasks, matches,
                   mu, wg, visited, ret>>

----------------------------------------------------------------------------
(* The program from main's call of Search on: Search is entered with any  *)
(* Options value, and os.Args, which nothing reads after ParseFlags, is     *)
(* left empty                                                               *)

Init ==
    /\ \/ /\ tree \in Trees
          /\ fault \in Faults(tree)
          /\ opts \in [ isFileOnly : BOOLEAN, isDirOnly : BOOLEAN,
                        isCaseSensitive : BOOLEAN,
                        directory : {RootDir}, pattern : Patterns ]
       \/ /\ tree = ScenarioTree
          /\ fault = [d \in Dirs(tree) |-> "none"]
          /\ opts \in [ isFileOnly : BOOLEAN, isDirOnly : BOOLEAN,
                        isCaseSensitive : BOOLEAN,
                        directory : {RootDir}, pattern : ScenarioPatterns ]
    /\ args = <<>>
    /\ pattern = opts.pattern
    /\ wpc = "start"
    /\ stack = <<>>
    /\ cur = <<>>
    /\ walkErr = Nil
    /\ tasks = <<>>
    /\ matches = <<>>
    /\ mu = 0
    /\ wg = 0
    /\ visited = <<>>
    /\ ret = [matches |-> <<>>, err |-> Nil]
    /\ out = <<>>
    /\ exitCode = 0

Task ==
    \E i \in DOMAIN tasks :
        \/ TaskLower(i)
        \/ TaskAssign(i)
        \/ TaskMatch(i)
        \/ TaskLock(i)
        \/ TaskLoad(i)
        \/ TaskStore(i)
        \/ TaskUnlock(i)
        \/ TaskDone(i)

Next ==
    \/ WalkStart
    \/ Visit
    \/ ReadDir
    \/ Task
    \/ SearchReturn
    \/ MainReport

Spec == Init /\ [][Next]_vars

\* the steps of the main goroutine
MainStep == WalkStart \/ Visit \/ ReadDir \/ SearchReturn \/ MainReport

\* the Go scheduler: the main goroutine is not left waiting for ever when it
\* can run, and neither are the match goroutines when one of them can
Fairness == WF_vars(MainStep) /\ WF_vars(Task)

\* the largest tree of the runs whose every behaviour is followed to its end
MaxFairEntries == 3

\* Search is entered as in Init, on the trees of at most MaxFairEntries
\* entries, with a configuration ParseFlags can return (line 51) and a pattern
\* without a character class
InitFair ==
    /\ Init
    /\ Cardinality(tree) <= MaxFairEntries
    /\ ~(opts.isFileOnly /\ opts.isDirOnly)
    /\ opts.pattern \in ScenarioPatterns

FairSpec == InitFair /\ [][Next]_vars /\ Fairness

----------------------------------------------------------------------------
(* main's handling of Search's result on its own: Search has returned, with *)
(* any result of its type ([]string, error)                                 *)

\* the longest result slice main is handed here
MaxResult == 2

ResultLists == UNION {[1..n -> Universe] : n \in 0..MaxResult}

InitMain ==
    /\ tree = {RootDir}
    /\ fault = [d \in Dirs(tree) |-> "none"]
    /\ opts \in [ isFileOnly : {FALSE}, isDirOnly : {FALSE}, isCaseSensitive : {FALSE},
                  directory : {RootDir}, pattern : {Chars("a.txt")} ]
    /\ args = <<>>
    /\ pattern = opts.pattern
    /\ wpc = "returned"
    /\ stack = <<>>
    /\ cur = <<>>
    /\ walkErr = Nil
    /\ tasks = <<>>
    /\ ret \in [matches : ResultLists, err : {Nil, "ERROR_FILE_NOT_FOUND", "ERROR_IO"}]
    /\ matches = ret.matches
    /\ mu = 0
    /\ wg = 0
    /\ visited = <<>>
    /\ out = <<>>
    /\ exitCode = 0

NextMain == MainReport

SpecMain == InitMain /\ [][NextMain]_vars

----------------------------------------------------------------------------
(* ParseFlags (lines 22-56), displayHelp (lines 116-123) and main's call of *)
(* ParseFlags (lines 127-132)                                               *)

\* the longest command line (tokens after the program name)
MaxArgs == 4

\* lines 28, 30, 32, 34: the spellings of the four flags
FileFlags == {"-f", "--file"}

DirFlags == {"-d", "--dir"}

CaseFlags == {"-c", "--casesensitive"}

HelpFlags == {"-h", "--help"}

\* the tokens of the model's command lines: the flags, two entry names and an
\* unknown token that starts with a dash
Tokens ==
    {"-f", "--file", "-d", "--dir", "-c", "--casesensitive", "-h", "--help",
     "root", "a.txt", "-x"}

CommandLines == UNION {[1..n -> Tokens] : n \in 0..MaxArgs}

\* line 22: `var opts Options`
ZeroOptions ==
    [isFileOnly |-> FALSE, isDirOnly |-> FALSE, isCaseSensitive |-> FALSE,
     directory |-> <<>>, pattern |-> <<>>]

\* the nil *Options ParseFlags returns with an error
NilOptions == [isNil |-> TRUE]

\* a loop body that recognises the flags only before the first positional
ScanArgFlagsFirst(st, arg) ==
    IF arg \in FileFlags \cup DirFlags \cup CaseFlags \cup HelpFlags /\ st.positionalArgs # <<>>
    THEN st
    ELSE IF arg \in FileFlags THEN [st EXCEPT !.opts.isFileOnly = TRUE]
    ELSE IF arg \in DirFlags THEN [st EXCEPT !.opts.isDirOnly = TRUE]
    ELSE IF arg \in CaseFlags THEN [st EXCEPT !.opts.isCaseSensitive = TRUE]
    ELSE IF arg \in HelpFlags THEN [st EXCEPT !.help = TRUE]
    ELSE [st EXCEPT !.positionalArgs = Append(@, arg)]

\* a loop body that drops an unknown token starting with a dash
ScanArgDashDropped(st, arg) ==
    IF arg \in FileFlags THEN [st EXCEPT !.opts.isFileOnly = TRUE]
    ELSE IF arg \in DirFlags THEN [st EXCEPT !.opts.isDirOnly = TRUE]
    ELSE IF arg \in CaseFlags THEN [st EXCEPT !.opts.isCaseSensitive = TRUE]
    ELSE IF arg \in HelpFlags THEN [st EXCEPT !.help = TRUE]
    ELSE IF arg = "-x" THEN st
    ELSE [st EXCEPT !.positionalArgs = Append(@, arg)]

\* lines 27-41: the switch on one token; st is the loop's state: opts,
\* positionalArgs, and whether the help case was taken
ScanArg(st, arg) ==
    IF arg \in FileFlags THEN [st EXCEPT !.opts.isFileOnly = TRUE]
    ELSE IF arg \in DirFlags THEN [st EXCEPT !.opts.isDirOnly = TRUE]
    ELSE IF arg \in CaseFlags THEN [st EXCEPT !.opts.isCaseSensitive = TRUE]
    ELSE IF arg \in HelpFlags THEN [st EXCEPT !.help = TRUE]
    ELSE [st EXCEPT !.positionalArgs = Append(@, arg)]

\* a help case that does not end the process
HelpIgnored(st) == FALSE

\* lines 35-37: the help case ends the process, and with it the loop
HelpRequested(st) == st.help

\* lines 26-42: the loop over args[1:]
RECURSIVE ScanArgs(_, _)
ScanArgs(rest, st) ==
    IF rest = <<>> \/ HelpRequested(st)
    THEN st
    ELSE ScanArgs(Tail(rest), ScanArg(st, Head(rest)))

\* a check of the two type flags that never fires
ConflictNever(o) == FALSE

\* a check of the two type flags with its sense inverted
ConflictInverted(o) == ~(o.isFileOnly /\ o.isDirOnly)

\* line 51: both type flags are set
Conflict(o) == o.isFileOnly /\ o.isDirOnly

ErrPositional == "invalid number of positional arguments"

ErrConflict == "you cannot use both --fileonly and --dironly at the same time"

\* lines 22-56: ParseFlags.  exit: the process ended inside ParseFlags
\* (os.Exit(0) after displayHelp); otherwise the pair (*Options, error)
ParseFlags(a) ==
    LET st == ScanArgs(Tail(a), [opts |-> ZeroOptions, positionalArgs |-> <<>>,
                                 help |-> FALSE])
        o == [st.opts EXCEPT !.directory = <<st.positionalArgs[1]>>,
                             !.pattern = Chars(st.positionalArgs[2])]
    IN  IF HelpRequested(st)
        THEN [exit |-> TRUE, opts |-> NilOptions, err |-> Nil]
        ELSE IF Len(st.positionalArgs) # 2
        THEN [exit |-> FALSE, opts |-> NilOptions, err |-> ErrPositional]
        ELSE IF Conflict(o)
        THEN [exit |-> FALSE, opts |-> NilOptions, err |-> ErrConflict]
        ELSE [exit |-> FALSE, opts |-> o, err |-> Nil]

\* lines 116-123: the usage text
displayHelp(program) ==
    << [kind |-> "Usage:", arg |-> program, class |-> ""],
       [kind |-> "Options:", arg |-> <<>>, class |-> ""],
       [kind |-> "option", arg |-> "-f, --file", class |-> ""],
       [kind |-> "option", arg |-> "-d, --dir", class |-> ""],
       [kind |-> "option", arg |-> "-c, --casesensitive", class |-> ""],
       [kind |-> "option", arg |-> "-h, --help", class |-> ""] >>

\* lines 127-135: main calls ParseFlags; the process ends with status 0 in
\* the help case and with status 1 after an error; otherwise main calls Search
MainParse ==
    /\ wpc = "parse"
    /\ LET r == ParseFlags(args) IN
       IF r.exit
       THEN /\ out' = out \o displayHelp(args[1])
            /\ exitCode' = 0
            /\ wpc' = "exited"
            /\ UNCHANGED <<opts, pattern>>
       ELSE IF r.err # Nil
       THEN /\ out' = out \o <<[kind |-> "Error:", arg |-> r.err, class |-> ""]>>
                          \o displayHelp(args[1])
            /\ exitCode' = 1
            /\ wpc' = "exited"
            /\ opts' = r.opts
            /\ UNCHANGED pattern
       ELSE /\ opts' = r.opts
            /\ pattern' = r.opts.pattern
            /\ wpc' = "start"
            /\ UNCHANGED <<out, exitCode>>
    /\ UNCHANGED <<args, tree, fault, stack, cur, walkErr, tasks, matches, mu, wg,
                   visited, ret>>

\* the whole program, on a tree of the root directory alone
InitArgs ==
    /\ args \in {<<"search">> \o c : c \in CommandLines}
    /\ tree = {RootDir}
    /\ fault = [d \in Dirs(tree) |-> "none"]
    /\ opts = NilOptions
    /\ pattern = <<>>
    /\ wpc = "parse"
    /\ stack = <<>>
    /\ cur = <<>>
    /\ walkErr = Nil
    /\ tasks = <<>>
    /\ matches = <<>>
    /\ mu = 0
    /\ wg = 0
    /\ visited = <<>>
    /\ ret = [matches |-> <<>>, err |-> Nil]
    /\ out = <<>>
    /\ exitCode = 0

NextArgs ==
    \/ MainParse
    \/ WalkStart
    \/ Visit
    \/ ReadDir
    \/ Task
    \/ SearchReturn
    \/ MainReport

SpecArgs == InitArgs /\ [][NextArgs]_vars

----------------------------------------------------------------------------
(* Vocabulary of the properties *)

SetOf(q) == {q[i] : i \in DOMAIN q}

Finished == wpc = "exited"

Returned == wpc \in {"returned", "exited"}

WalkOver == wpc \in {"wait", "returned", "exited"}

NoFaults == \A d \in DOMAIN fault : fault[d] = "none"

\* the kinds of the lines printed so far
Printed == {out[i].kind : i \in DOMAIN out}

\* the paths the callback was called on without an error
VisitedOK == {visited[i][1] : i \in {k \in DOMAIN visited : visited[k][2] = Nil}}

\* the paths the callback was called on with an error
VisitedErr == {visited[i][1] : i \in {k \in DOMAIN visited : visited[k][2] # Nil}}

\* the entries of the tree that reading the directories yields: the root,
\* and every entry that each directory above it hands out (all of its
\* entries when the read does not fail)
Delivered ==
    {p \in tree :
        \A k \in 1..(Len(p) - 1) :
            LET dir == SubSeq(p, 1, k) IN
            \/ fault[dir] = "none"
            \/ p[k + 1] \in SetOf(OsReadDir(dir).entries)}

\* an entry that the type filter lets through, by the flags alone
Tested(p) ==
    ~(opts.isFileOnly /\ IsDirOf[p]) /\ ~(opts.isDirOnly /\ ~IsDirOf[p])

\* the last component of a path
LastName(p) == p[Len(p)]

\* the glob test on a name under the configuration main passed in
NameMatches(name) ==
    LET n == IF opts.isCaseSensitive THEN Chars(name) ELSE ToLower(Chars(name))
        g == IF opts.isCaseSensitive THEN opts.pattern ELSE ToLower(opts.pattern)
        m == Match(g, n)
    IN  m.err = Nil /\ m.matched

PathsStarted == {tasks[i].path : i \in DOMAIN tasks}

----------------------------------------------------------------------------
(* Properties *)

\* C1: when the root path does not exist, Search returns a non-nil error to
\* main and the program prints no match output (neither "Found Paths:" nor
\* "No path matches the pattern").
C1_MissingRootFails ==
    (Finished /\ tree = {}) =>
        /\ ret.err # Nil
        /\ Printed \cap {"Found Paths:", "No path matches the pattern", "path"} = {}

C3_MatchIffBaseNameMatches ==
    Returned =>
        /\ SetOf(ret.matches) = {p \in VisitedOK : Tested(p) /\ NameMatches(LastName(p))}
        /\ ~WellFormed(opts.pattern, 1) => (ret.matches = <<>> /\ ret.err = Nil)

C3_Witness ==
    /\ Finished
    /\ ~opts.isCaseSensitive
    /\ opts.pattern = <<"[", "O", "-", "R", "]", "*">>
    /\ RootDir \in SetOf(ret.matches)
    /\ <<"root", "sub">> \in VisitedOK \ SetOf(ret.matches)

\* the run of the specification's scenarios 7 and 8, without a type filter
ScenarioRun == tree = ScenarioTree /\ NoFaults /\ ~opts.isFileOnly /\ ~opts.isDirOnly

\* C4, as stated: on root/{a.txt, B.TXT, sub/a.txt} with pattern a.txt and no
\* type filter, Search returns {root/a.txt, root/B.TXT, root/sub/a.txt} when
\* caseSensitive is false and {root/a.txt, root/sub/a.txt} when it is true.
C4_ScenarioAsStated ==
    (Returned /\ ScenarioRun /\ opts.pattern = Chars("a.txt")) =>
        SetOf(ret.matches) =
            IF opts.isCaseSensitive
            THEN {<<"root", "a.txt">>, <<"root", "sub", "a.txt">>}
            ELSE {<<"root", "a.txt">>, <<"root", "B.TXT">>, <<"root", "sub", "a.txt">>}

\* C4, amended: on that tree with pattern a.txt and no type filter, Search
\* returns exactly {root/a.txt, root/sub/a.txt} whether caseSensitive is set
\* or not (B.TXT lower-cased is b.txt, which a.txt does not match).
C4_ScenarioAmended ==
    (Returned /\ ScenarioRun /\ opts.pattern = Chars("a.txt")) =>
        SetOf(ret.matches) = {<<"root", "a.txt">>, <<"root", "sub", "a.txt">>}

C4_Witness ==
    /\ Finished
    /\ ScenarioRun
    /\ opts.pattern = Chars("a.txt")
    /\ ~opts.isCaseSensitive
    /\ <<"root", "B.TXT">> \in PathsStarted
    /\ Len(ret.matches) = 2

NoMatchLine == [kind |-> "No path matches the pattern", arg |-> <<>>, class |-> ""]

\* a root directory that exists, can be read and has no children
EmptyRootRun == tree = {RootDir} /\ NoFaults

\* C5, as stated: for an existing root directory without children, for every
\* pattern and flag combination, Search returns an empty MatchSet, the output
\* is exactly "No path matches the pattern" and the exit code is 0.
C5_EmptyRootAsStated ==
    (Finished /\ EmptyRootRun) =>
        /\ ret.matches = <<>>
        /\ out = <<NoMatchLine>>
        /\ exitCode = 0

\* C5, amended: for an existing root directory without children the exit code
\* is 0; the MatchSet is empty and the output is exactly "No path matches the
\* pattern" unless fileOnly is off and the root's own base name matches the
\* pattern, in which case the MatchSet is exactly the root path and the
\* output is "Found Paths:" followed by it.
C5_EmptyRootAmended ==
    (Finished /\ EmptyRootRun) =>
        /\ exitCode = 0
        /\ IF ~opts.isFileOnly /\ NameMatches("root")
           THEN /\ ret.matches = <<RootDir>>
                /\ out = << [kind |-> "Found Paths:", arg |-> <<>>, class |-> ""],
                            [kind |-> "path", arg |-> RootDir, class |-> ""] >>
           ELSE /\ ret.matches = <<>>
                /\ out = <<NoMatchLine>>

C5_Witness ==
    /\ Finished
    /\ EmptyRootRun
    /\ PathsStarted = {RootDir}
    /\ out = <<NoMatchLine>>

C7_FiltersNeverPrune ==
    WalkOver =>
        LET handed == Delivered
            started == PathsStarted
        IN  /\ VisitedOK = handed
            /\ opts.isFileOnly =>
                  \A p \in handed :
                      IF IsDirOf[p] THEN p \notin started
                      ELSE opts.isDirOnly \/ p \in started
            /\ opts.isDirOnly =>
                  \A p \in handed :
                      IF IsDirOf[p] THEN opts.isFileOnly \/ p \in started
                      ELSE p \notin started

C7_Witness ==
    /\ Finished
    /\ opts.isFileOnly
    /\ <<"root", "sub">> \in VisitedOK \ PathsStarted
    /\ <<"root", "sub", "a.txt">> \in SetOf(ret.matches)

\* C8: in every state of a search with dirOnly every path in the MatchSet is
\* a directory, with fileOnly every path in it is a non-directory; on
\* root/{a.txt, B.TXT, sub/a.txt} with dirOnly and pattern sub the result is
\* exactly {root/sub}.
C8_ResultsRespectTypeFilter ==
    /\ opts.isDirOnly => \A p \in SetOf(matches) \cup SetOf(ret.matches) : IsDirOf[p]
    /\ opts.isFileOnly => \A p \in SetOf(matches) \cup SetOf(ret.matches) : ~IsDirOf[p]
    /\ ( /\ Returned
         /\ tree = ScenarioTree
         /\ NoFaults
         /\ opts.isDirOnly
         /\ ~opts.isFileOnly
         /\ opts.pattern = Chars("sub") ) => SetOf(ret.matches) = {<<"root", "sub">>}

C8_Witness ==
    /\ Finished
    /\ tree = ScenarioTree
    /\ opts.isDirOnly
    /\ opts.pattern = Chars("sub")
    /\ ret.matches = <<<<"root", "sub">>>>

\* C9: Search returns only after the walk is over and every goroutine it
\* started has ended: the WaitGroup counts exactly the goroutines that have
\* not ended (each is added before it starts), and at the return no goroutine
\* is pending or in its append, the mutex is free and the MatchSet holds the
\* path of every goroutine that matched.
C9_Barrier ==
    /\ wg = Cardinality({i \in DOMAIN tasks : tasks[i].pc # "exited"})
    /\ Returned =>
          /\ stack = <<>>
          /\ \A i \in DOMAIN tasks : tasks[i].pc = "exited"
          /\ mu = 0
          /\ ret.matches = matches
          /\ \A i \in DOMAIN tasks :
                tasks[i].matched => tasks[i].path \in SetOf(ret.matches)

C9_Witness ==
    /\ wpc = "returned"
    /\ Len(tasks) >= 3
    /\ Len(ret.matches) >= 2

\* the goroutine is between mu.Lock() and mu.Unlock()
InAppend(i) == tasks[i].pc \in {"load", "store", "unlock"}

\* the goroutine has assigned the grown slice
Appended(i) == tasks[i].matched /\ tasks[i].pc \in {"unlock", "done", "exited"}

\* C10: in every interleaving at most one goroutine is changing the MatchSet:
\* a goroutine is between Lock and Unlock exactly while it holds the mutex,
\* which is never during the match test; no append is lost.
C10_AppendUnderMutex ==
    /\ Cardinality({i \in DOMAIN tasks : InAppend(i)}) <= 1
    /\ \A i \in DOMAIN tasks : InAppend(i) <=> mu = i
    /\ \A i \in DOMAIN tasks : Appended(i) => tasks[i].path \in SetOf(matches)
    /\ Len(matches) = Cardinality({i \in DOMAIN tasks : Appended(i)})

C10_Witness ==
    \E i, j \in DOMAIN tasks :
        /\ tasks[i].pc = "store"
        /\ tasks[j].pc = "lock"

\* C11: the MatchSet is the only state the match goroutines write: Search's
\* configuration, the pattern included, keeps the value main passed in, and no
\* two goroutines are ever both about to write a shared variable outside the
\* mutex.
C11_OnlyMatchSetWritten ==
    /\ pattern = opts.pattern
    /\ Cardinality({i \in DOMAIN tasks : tasks[i].pc = "assign"}) <= 1

\* the set Search must return, by the filesystem and the configuration alone
ExpectedMatches == {p \in Delivered : Tested(p) /\ NameMatches(LastName(p))}

\* C12: for a fixed tree and configuration every interleaving of the match
\* goroutines with each other and with the walk returns the same MatchSet as a
\* set: the one the tree and the configuration determine.
C12_ResultDetermined ==
    Returned => SetOf(ret.matches) = ExpectedMatches

\* the two matches of the scenario, returned against the order of discovery
C12_Witness ==
    /\ Finished
    /\ ret.matches = << <<"root", "sub", "a.txt">>, <<"root", "a.txt">> >>

\* a sequence without a repeated element
NoRepeat(q) == \A i, j \in DOMAIN q : q[i] = q[j] => i = j

\* C18: in every state of a search no path occurs twice in the MatchSet, and
\* at most one match goroutine is started per entry, also for a directory the
\* walk reports a second time with the error of reading it.
C18_NoPathTwice ==
    /\ NoRepeat(matches)
    /\ NoRepeat(ret.matches)
    /\ NoRepeat([i \in DOMAIN tasks |-> tasks[i].path])

C18_Witness ==
    /\ Finished
    /\ <<"root", "Sub">> \in VisitedOK \cap VisitedErr
    /\ <<"root", "Sub">> \in SetOf(ret.matches)

----------------------------------------------------------------------------
(* Command lines, as the documentation describes them *)

\* main is past its call of ParseFlags
Parsed == wpc # "parse"

\* the command line without the program name
Line == Tail(args)

HasAny(q, S) == \E i \in DOMAIN q : q[i] \in S

IsFlag(a) == a \in {"-f", "--file", "-d", "--dir", "-c", "--casesensitive", "-h", "--help"}

HasHelp(q) == HasAny(q, {"-h", "--help"})

HasBothTypeFlags(q) == HasAny(q, {"-f", "--file"}) /\ HasAny(q, {"-d", "--dir"})

IsPositional(a) == ~IsFlag(a)

Positionals(q) == SelectSeq(q, IsPositional)

\* the other spelling of a flag
Respell(a) ==
    CASE a = "-f" -> "--file" [] a = "--file" -> "-f"
      [] a = "-d" -> "--dir" [] a = "--dir" -> "-d"
      [] a = "-c" -> "--casesensitive" [] a = "--casesensitive" -> "-c"
      [] OTHER -> a

\* the command lines one step away from q: two neighbours exchanged, one of
\* them a flag; a flag repeated; a flag in its other spelling
Rearranged(q) ==
    {[q EXCEPT ![i] = q[i + 1], ![i + 1] = q[i]] :
        i \in {k \in 1..(Len(q) - 1) : IsFlag(q[k]) \/ IsFlag(q[k + 1])}}
    \cup {SubSeq(q, 1, j) \o <<q[i]>> \o SubSeq(q, j + 1, Len(q)) :
            i \in {k \in DOMAIN q : IsFlag(q[k])}, j \in 0..Len(q)}
    \cup {[q EXCEPT ![i] = Respell(q[i])] : i \in DOMAIN q}

\* the process ended in main's error branch with this error
FailedWith(err) ==
    /\ Finished
    /\ exitCode = 1
    /\ out = <<[kind |-> "Error:", arg |-> err, class |-> ""]>> \o displayHelp(args[1])
    /\ opts = NilOptions
    /\ visited = <<>> /\ tasks = <<>>

\* the process ended in the help case
HelpShown ==
    /\ Finished
    /\ exitCode = 0
    /\ out = displayHelp(args[1])
    /\ visited = <<>> /\ tasks = <<>>

\* main went on to Search with the configuration of this command line
SearchCalledWith(dir, pat) ==
    /\ opts # NilOptions
    /\ opts.directory = <<dir>>
    /\ opts.pattern = Chars(pat)
    /\ wpc = "exited" => visited # <<>>

\* C13: without a help flag and with two positionals, the configuration that
\* ParseFlags returned to main for the command line is the one it returns for
\* every rearrangement of it: a flag moved before, between or after the
\* positionals, a flag repeated, a flag in its other spelling.
C13_OrderIndependent ==
    Parsed /\ ~HasHelp(Line) /\ Len(Positionals(Line)) = 2 =>
        \A q \in Rearranged(Line) :
            LET r == ParseFlags(<<args[1]>> \o q) IN
            /\ ~r.exit
            /\ r.opts = opts
            /\ (r.err = Nil) = (opts # NilOptions)

\* a flag after both positionals and one between them, and the search started
C13_Witness ==
    /\ wpc = "start"
    /\ Len(Line) = 4
    /\ IsPositional(Line[1]) /\ IsFlag(Line[2]) /\ IsPositional(Line[3]) /\ IsFlag(Line[4])
    /\ opts.isCaseSensitive /\ opts.isFileOnly

\* C14 as stated: whenever both type flags are on the command line, whatever
\* else is, the help flag included, the program fails with a usage error.
C14_ConflictAlwaysFails ==
    Parsed /\ HasBothTypeFlags(Line) =>
        FailedWith(ErrConflict) \/ FailedWith(ErrPositional)

\* C14 amended: whenever both type flags are on the command line and no help
\* flag is, the program fails with a usage error: the mutual-exclusion error
\* with exactly two positionals, the positional-count error otherwise.
C14_ConflictFailsWithoutHelp ==
    Parsed /\ HasBothTypeFlags(Line) /\ ~HasHelp(Line) =>
        IF Len(Positionals(Line)) = 2
        THEN FailedWith(ErrConflict)
        ELSE FailedWith(ErrPositional)

C14_Witness ==
    /\ HasAny(Line, {"-f"}) /\ HasAny(Line, {"--dir"}) /\ ~HasAny(Line, {"-d"})
    /\ Positionals(Line) = <<"root", "a.txt">>
    /\ FailedWith(ErrConflict)

\* C15: with a help flag anywhere on the command line the program prints the
\* usage text and ends with status 0; it reports no error, validates nothing
\* and starts no search, whatever the other tokens are.
C15_HelpShortCircuits ==
    Parsed /\ HasHelp(Line) => HelpShown /\ "Error:" \notin Printed

\* help as the last token, after an unknown dash token and both type flags
C15_Witness ==
    /\ HelpShown
    /\ HasBothTypeFlags(Line)
    /\ Len(Line) = 4 /\ Line[4] \in {"-h", "--help"}
    /\ Line[1] = "-x"

\* C16 as stated: every token that is not a flag is a positional; with a
\* number of positionals other than two the program fails with the
\* positional-count error, prints the error and the help text, starts no
\* search and ends with status 1; otherwise the first positional is the root
\* directory and the second the pattern.
C16_PositionalsAsStated ==
    Parsed =>
        IF Len(Positionals(Line)) # 2
        THEN FailedWith(ErrPositional)
        ELSE SearchCalledWith(Positionals(Line)[1], Positionals(Line)[2])

\* C16 amended: the same on a command line without a help flag, where two
\* positionals become root directory and pattern unless both type flags are
\* set.
C16_PositionalsAmended ==
    Parsed /\ ~HasHelp(Line) =>
        IF Len(Positionals(Line)) # 2
        THEN FailedWith(ErrPositional)
        ELSE IF HasBothTypeFlags(Line)
        THEN FailedWith(ErrConflict)
        ELSE SearchCalledWith(Positionals(Line)[1], Positionals(Line)[2])

\* an unknown dash token counted as the first of three positionals
C16_Witness ==
    /\ Positionals(Line) = <<"-x", "root", "a.txt">>
    /\ FailedWith(ErrPositional)

\* main has a configuration from ParseFlags
HasConfiguration == opts # NilOptions

\* C17: every configuration ParseFlags returns, and so every configuration
\* main calls Search with, has isFileOnly and isDirOnly not both true.
C17_NeverBothTypeFlags ==
    /\ HasConfiguration => ~(opts.isFileOnly /\ opts.isDirOnly)
    /\ wpc \in {"start", "walk", "readdir", "wait", "returned"} => HasConfiguration

\* a search started with the file-only flag from a command line with two
\* spellings of it
C17_Witness ==
    /\ wpc = "walk"
    /\ opts.isFileOnly
    /\ HasAny(Line, {"-f"}) /\ HasAny(Line, {"--file"})

\* Search has returned and every goroutine it started has ended
SearchDone ==
    /\ Returned
    /\ wg = 0
    /\ mu = 0
    /\ \A i \in DOMAIN tasks : tasks[i].pc = "exited"

\* C19: on every tree and with every pattern of read errors, when no goroutine
\* that can run is left waiting for ever, Search eventually returns: the walk
\* ends, every goroutine gets the mutex if it needs it and ends, and the wait
\* is released.
C19_SearchReturns == <>SearchDone

\* the walk is over and waits, one goroutine holds the mutex and another
\* waits for it
C19_Witness ==
    /\ wpc = "wait"
    /\ wg = 2
    /\ \E i, j \in DOMAIN tasks :
          /\ mu = i
          /\ tasks[j].pc = "lock"

====
